---- MODULE Spec2Model ----
(***************************************************************************)
(* Model of the signal analysis pipeline of binance-trading-system.        *)
(*                                                                         *)
(* Two React components are modelled:                                      *)
(*   Bb                   (src/src/jj.js): single endpoint, response       *)
(*                        cache, request throttle, indicator pipeline and  *)
(*                        decision engine;                                 *)
(*   BinanceTradingSystem (src/unnamed/part_000): four mirror endpoints    *)
(*                        tried in order, no cache, no throttle.           *)
(*                                                                         *)
(* Definitions prefixed Bb_ model jj.js, those prefixed BTS_ model         *)
(* part_000.  Times are in milliseconds.  Scores and weights of the        *)
(* decision engine are fixed-point numbers in tenths, so that              *)
(* 15 * 0.7 = 10.5 is the integer 105.  A page renders one of the two      *)
(* components (mounted).  The decision engine is run on literal inputs    *)
(* under SpecEngine, calculateIndicators followed by performAnalysis on    *)
(* literal candle series under SpecPipeline, and fetches in flight at the  *)
(* same time under SpecConcurrent.                                         *)
(***************************************************************************)
EXTENDS Integers, Sequences, FiniteSets, TLC

(***************************************************************************)
(* Bounds of the model.                                                    *)
(***************************************************************************)
\* Date.now() when the component is mounted (an epoch time, far above the
\* rate limit, so that the first request never waits).
StartTime == 1000
\* The clock advances in steps of TimeStep up to MaxTime.
TimeStep == 500
MaxTime == 3000
\* Network requests the Bb component may issue in one behaviour.
MaxCalls == 3
\* analyzeMarket calls of the BinanceTradingSystem component in one behaviour.
MaxRuns == 3

(***************************************************************************)
(* Program constants.                                                      *)
(***************************************************************************)
RateLimit == 1000
DefaultLimit == 300
MinDataPoints == 200
BTS_MinLength == 50

tradingPairs == {"BTCUSDT", "ETHUSDT"}
timeframes == {"1h"}

(***************************************************************************)
(* Decoded response bodies.  json is the JSON type of the decoded value;   *)
(* for an array, len is its length, candles says whether its elements are *)
(* candle records [openTime, open, high, low, close, volume, ...] and nz   *)
(* is the number of elements whose close and volume both parse to a        *)
(* non-zero number.                                                        *)
(***************************************************************************)
Undefined == [json |-> "undefined", candles |-> FALSE, len |-> 0, nz |-> 0]
JsonNull == [json |-> "null", candles |-> FALSE, len |-> 0, nz |-> 0]
JsonObject == [json |-> "object", candles |-> FALSE, len |-> 0, nz |-> 0]

CandleArray(n, m) == [json |-> "array", candles |-> TRUE, len |-> n, nz |-> m]

\* An array whose elements are not candle records (e.g. numbers).
NonCandleArray(n) == [json |-> "array", candles |-> FALSE, len |-> n, nz |-> 0]

CandleBodies ==
  { CandleArray(0, 0), CandleArray(60, 40), CandleArray(60, 60),
    CandleArray(300, 300) }

Bodies == CandleBodies \cup { NonCandleArray(300), JsonObject, JsonNull }

\* The decoded body is a sequence of candle records.
IsCandleSeries(b) == b.json = "array" /\ b.candles

\* JavaScript truthiness of a decoded JSON value (arrays and objects are
\* truthy, also when empty; null and undefined are falsy).
Truthy(b) == b.json \notin {"undefined", "null"}

(***************************************************************************)
(* What the network can answer to one request.                             *)
(*   transport    fetch() rejects                                          *)
(*   status       response.ok is false                                     *)
(*   undecodable  response.ok, response.json() rejects                     *)
(*   json         response.ok, response.json() resolves to body            *)
(***************************************************************************)
Response(k, b) == [kind |-> k, body |-> b]

Responses ==
  { Response("transport", Undefined), Response("status", Undefined),
    Response("undecodable", Undefined) }
  \cup { Response("json", b) : b \in Bodies }


(***************************************************************************)
(* State.                                                                  *)
(***************************************************************************)
VARIABLES
  mounted,          \* the component the page renders: "Bb" or "BTS"
  \* ---- Bb (src/src/jj.js) ----
  symbol,           \* useState('BTCUSDT')
  timeframe,        \* useState('1h')
  isLoading,        \* useState(false)
  results,          \* useState(null): <<>> is null, <<r>> is the object r
  error,            \* useState(null): "null" or the kind of the message
  lastRequestTime,  \* useState(0)
  cachedData,       \* useRef({}): a function from the cache keys present
  now,              \* Date.now()
  run,              \* the analyzeMarket call in flight, or the last one
  netLog,           \* history: the fetch() calls issued, oldest first
  \* ---- BinanceTradingSystem (src/unnamed/part_000) ----
  bIsLoading,       \* useState(false)
  bResults,         \* useState(null)
  bError,           \* useState(null)
  bRun,             \* the analyzeMarket call in flight, or the last one
  bRuns,            \* history: number of analyzeMarket calls started
  \* ---- decision engine on a literal input (jj.js performAnalysis) ----
  input,            \* <<>> or <<[indicators, currentPrice, previousPrice]>>
  analysis,         \* <<>> or <<the object performAnalysis returned>>
  \* ---- indicator pipeline on a literal series (jj.js calculateIndicators) ----
  pipeInput,        \* <<>> or <<[klines, library]>>: the candle series and the
                    \* answers the technicalindicators functions give
  bundle,           \* <<>> or <<the object calculateIndicators returned>>
  libCalls,         \* history: the indicators the library was called for
  \* ---- fetches in flight at the same time ----
  calls             \* per caller, the fetchKlines call it has in flight

bbVars == <<symbol, timeframe, isLoading, results, error, lastRequestTime,
            cachedData, now, run, netLog>>
btsVars == <<bIsLoading, bResults, bError, bRun, bRuns>>
engVars == <<input, analysis>>
pipeVars == <<pipeInput, bundle, libCalls>>
conVars == <<calls>>
vars == <<mounted, bbVars, btsVars, engVars, pipeVars, conVars>>

Components == {"Bb", "BTS"}

(***************************************************************************)
(* Bb: fetchKlines (jj.js 91-128).                                         *)
(***************************************************************************)
\* `${symbol}-${interval}-${limit}`: the symbols and intervals offered by
\* the component contain no '-', so the string determines the triple.
CacheKey(s, i, l) == <<s, i, l>>

Keys == { CacheKey(s, i, DefaultLimit) : s \in tradingPairs, i \in timeframes }

\* cachedData.current[cacheKey]
Lookup(cache, key) == IF key \in DOMAIN cache THEN cache[key] ELSE Undefined

\* if (cachedData.current[cacheKey])
CacheHit(cache, key) == Truthy(Lookup(cache, key))

\* cachedData.current[cacheKey] = data
CacheStore_OnlyFullLength(cache, key, data) ==
  IF data.json = "array" /\ data.len >= MinDataPoints
  THEN [k \in DOMAIN cache \cup {key} |-> IF k = key THEN data ELSE cache[k]]
  ELSE cache

CacheStore(cache, key, data) ==
  [k \in DOMAIN cache \cup {key} |-> IF k = key THEN data ELSE cache[k]]

\* The delay of the throttle: 0 when no wait is needed.
RateDelay_None(t, last) == 0

RateDelay(t, last) ==
  IF t - last < RateLimit THEN RateLimit - (t - last) ELSE 0

\* One fetch() call of the history.
NetCall(key, at) == [key |-> key, at |-> at, status |-> "pending", doneAt |-> 0]

Issue(log, key, at) == Append(log, NetCall(key, at))

Settle(log, status, at) ==
  [log EXCEPT ![Len(log)] = [@ EXCEPT !.status = status, !.doneAt = at]]

(***************************************************************************)
(* Bb: the rest of analyzeMarket once fetchKlines has returned klines      *)
(* (jj.js 518-546).  The indicator bundle and the Signal are functions of  *)
(* klines alone and are not kept in results here; performAnalysis is       *)
(* modelled on literal inputs below.                                       *)
(***************************************************************************)
Bb_ErrorOf(klines) ==
  IF ~Truthy(klines) THEN "InsufficientData"
  ELSE IF klines.json = "array" /\ klines.len < MinDataPoints THEN "InsufficientData"
  ELSE IF klines.json # "array" THEN "TypeError"         \* klines.map is not a function
  ELSE IF ~klines.candles THEN "PriceProcessing"         \* prices.some(isNaN)
  ELSE "null"

Bb_ResultsOf(sym, klines) ==
  IF Bb_ErrorOf(klines) = "null" THEN << [symbol |-> sym, klines |-> klines] >> ELSE <<>>

IdleRun == [pc |-> "idle", symbol |-> "", key |-> <<>>, wakeAt |-> 0,
            source |-> "none", outcome |-> "none", klines |-> Undefined]

\* fetchKlines returned klines: the try block runs to its end or throws,
\* then the finally block.
Bb_Finish(r, source, klines) ==
  /\ results' = Bb_ResultsOf(r.symbol, klines)
  /\ error' = Bb_ErrorOf(klines)
  /\ isLoading' = FALSE
  /\ run' = [r EXCEPT !.pc = "idle", !.source = source,
                      !.outcome = "returned", !.klines = klines]

\* fetchKlines threw: the catch block, then the finally block.
Bb_Fail(r, kind) ==
  /\ results' = <<>>
  /\ error' = kind
  /\ isLoading' = FALSE
  /\ run' = [r EXCEPT !.pc = "idle", !.source = "network",
                      !.outcome = "threw", !.klines = Undefined]

\* The click on the button (disabled while isLoading): analyzeMarket up to
\* its first suspension.
Bb_analyzeMarket ==
  /\ mounted = "Bb"
  /\ ~isLoading
  /\ LET key == CacheKey(symbol, timeframe, DefaultLimit)
         r == [IdleRun EXCEPT !.symbol = symbol, !.key = key]
         delay == RateDelay(now, lastRequestTime)
     IN IF CacheHit(cachedData, key)
        THEN /\ Bb_Finish(r, "cache", Lookup(cachedData, key))
             /\ UNCHANGED netLog
        ELSE /\ Len(netLog) < MaxCalls
             /\ isLoading' = TRUE
             /\ error' = "null"
             /\ results' = <<>>
             /\ IF delay > 0
                THEN /\ run' = [r EXCEPT !.pc = "waiting", !.wakeAt = now + delay]
                     /\ UNCHANGED netLog
                ELSE /\ run' = [r EXCEPT !.pc = "fetching"]
                     /\ netLog' = Issue(netLog, key, now)
  /\ UNCHANGED <<symbol, timeframe, lastRequestTime, cachedData, now>>
  /\ UNCHANGED <<mounted, btsVars, engVars, pipeVars, conVars>>

\* The throttle timer fires: fetch(apiUrl) is called.
Bb_TimerFires ==
  /\ mounted = "Bb"
  /\ run.pc = "waiting"
  /\ now >= run.wakeAt
  /\ run' = [run EXCEPT !.pc = "fetching"]
  /\ netLog' = Issue(netLog, run.key, now)
  /\ UNCHANGED <<symbol, timeframe, isLoading, results, error, lastRequestTime,
                 cachedData, now>>
  /\ UNCHANGED <<mounted, btsVars, engVars, pipeVars, conVars>>

Bb_Response_StampsFailures(resp) ==
  /\ mounted = "Bb"
  /\ run.pc = "fetching"
  /\ netLog' = Settle(netLog, IF resp.kind = "json" THEN "ok" ELSE "failed", now)
  /\ lastRequestTime' = now
  /\ IF resp.kind = "json"
     THEN /\ cachedData' = CacheStore(cachedData, run.key, resp.body)
          /\ Bb_Finish(run, "network", resp.body)
     ELSE /\ Bb_Fail(run, IF resp.kind = "undecodable" THEN "MalformedResponse"
                          ELSE "FetchFailed")
          /\ UNCHANGED cachedData
  /\ UNCHANGED <<symbol, timeframe, now>>
  /\ UNCHANGED <<mounted, btsVars, engVars, pipeVars, conVars>>

\* The network answers; the rest of fetchKlines and of analyzeMarket run.
Bb_Response(resp) ==
  /\ mounted = "Bb"
  /\ run.pc = "fetching"
  /\ netLog' = Settle(netLog, IF resp.kind = "json" THEN "ok" ELSE "failed", now)
  /\ IF resp.kind = "json"
     THEN /\ cachedData' = CacheStore(cachedData, run.key, resp.body)
          /\ lastRequestTime' = now
          /\ Bb_Finish(run, "network", resp.body)
     ELSE /\ Bb_Fail(run, IF resp.kind = "undecodable" THEN "MalformedResponse"
                          ELSE "FetchFailed")
          /\ UNCHANGED <<cachedData, lastRequestTime>>
  /\ UNCHANGED <<symbol, timeframe, now>>
  /\ UNCHANGED <<mounted, btsVars, engVars, pipeVars, conVars>>

\* onChange of the instrument select (never disabled).
Bb_setSymbol(s) ==
  /\ mounted = "Bb"
  /\ s # symbol
  /\ symbol' = s
  /\ UNCHANGED <<timeframe, isLoading, results, error, lastRequestTime,
                 cachedData, now, run, netLog>>
  /\ UNCHANGED <<mounted, btsVars, engVars, pipeVars, conVars>>

\* Time passes.
Tick ==
  /\ mounted = "Bb"
  /\ now + TimeStep <= MaxTime
  /\ now' = now + TimeStep
  /\ UNCHANGED <<symbol, timeframe, isLoading, results, error, lastRequestTime,
                 cachedData, run, netLog>>
  /\ UNCHANGED <<mounted, btsVars, engVars, pipeVars, conVars>>

InitBb ==
  /\ symbol = "BTCUSDT"
  /\ timeframe = "1h"
  /\ isLoading = FALSE
  /\ results = <<>>
  /\ error = "null"
  /\ lastRequestTime = 0
  /\ cachedData = << >>
  /\ now = StartTime
  /\ run = IdleRun
  /\ netLog = << >>

(***************************************************************************)
(* BinanceTradingSystem: fetchKlines (part_000 31-62).                     *)
(***************************************************************************)
endpoints == << "https://api.binance.com", "https://api1.binance.com",
                "https://api2.binance.com", "https://api3.binance.com" >>

\* if (response.ok) { data = await response.json(); if (data && data.length >= 50)
BTS_Satisfying(resp) ==
  /\ resp.kind = "json"
  /\ Truthy(resp.body)
  /\ resp.body.json = "array"        \* of the bodies modelled, only arrays have a length
  /\ resp.body.len >= BTS_MinLength

\* for (const endpoint of endpoints): the position after position i.
BTS_NextIndex_Skip(i) == i + 2

BTS_NextIndex(i) == i + 1

\* The for loop has no endpoint after position i.
BTS_Exhausted_AfterFirst(i) == i >= 1

BTS_Exhausted(i) == i >= Len(endpoints)

(***************************************************************************)
(* BinanceTradingSystem: the rest of analyzeMarket once fetchKlines has    *)
(* returned klines (part_000 71-97).  filter(Boolean) drops the closes     *)
(* and volumes that are 0 or NaN.                                          *)
(***************************************************************************)
BTS_ErrorOf(klines) ==
  IF klines.nz < BTS_MinLength THEN "InsufficientData" ELSE "null"

BTS_IdleRun == [pc |-> "idle", idx |-> 0, attempts |-> << >>, responses |-> << >>,
                outcome |-> "none", klines |-> Undefined]

\* The click on the button: analyzeMarket up to the first fetch().
\* One call is in flight at a time in this model.
BTS_analyzeMarket ==
  /\ mounted = "BTS"
  /\ bRun.pc = "idle"
  /\ bRuns < MaxRuns
  /\ bRuns' = bRuns + 1
  /\ bIsLoading' = TRUE
  /\ bError' = "null"
  /\ bRun' = [BTS_IdleRun EXCEPT !.pc = "fetching", !.idx = 1,
                                 !.attempts = << endpoints[1] >>]
  /\ UNCHANGED bResults
  /\ UNCHANGED <<mounted, bbVars, engVars, pipeVars, conVars>>

\* The endpoint in flight answers: the rest of this loop iteration, then the
\* next fetch(), or the rest of fetchKlines and of analyzeMarket.
BTS_Response(resp) ==
  /\ mounted = "BTS"
  /\ bRun.pc = "fetching"
  /\ LET r == [bRun EXCEPT !.responses = Append(@, resp)]
     IN IF BTS_Satisfying(resp)
        THEN \* return data
             /\ bRun' = [r EXCEPT !.pc = "idle", !.outcome = "returned",
                                  !.klines = resp.body]
             /\ bError' = BTS_ErrorOf(resp.body)
             /\ bResults' = IF BTS_ErrorOf(resp.body) = "null"
                            THEN << [symbol |-> "BTCUSDT", klines |-> resp.body] >>
                            ELSE bResults
             /\ bIsLoading' = FALSE
        ELSE IF BTS_Exhausted(bRun.idx)
        THEN \* throw new Error('...')
             /\ bRun' = [r EXCEPT !.pc = "idle", !.outcome = "threw"]
             /\ bError' = "DataUnavailable"
             /\ bIsLoading' = FALSE
             /\ UNCHANGED bResults
        ELSE /\ bRun' = [r EXCEPT !.idx = BTS_NextIndex(bRun.idx),
                                  !.attempts = Append(@, endpoints[BTS_NextIndex(bRun.idx)])]
             /\ UNCHANGED <<bIsLoading, bResults, bError>>
  /\ UNCHANGED bRuns
  /\ UNCHANGED <<mounted, bbVars, engVars, pipeVars, conVars>>

InitBTS ==
  /\ bIsLoading = FALSE
  /\ bResults = <<>>
  /\ bError = "null"
  /\ bRun = BTS_IdleRun
  /\ bRuns = 0

InitEngine ==
  /\ input = <<>>
  /\ analysis = <<>>

InitPipeline ==
  /\ pipeInput = <<>>
  /\ bundle = <<>>
  /\ libCalls = {}

\* The callers that may have a fetch in flight at the same time.
Callers == {1, 2}

IdleCall == [pc |-> "idle", key |-> <<>>, seen |-> 0, wakeAt |-> 0, at |-> 0,
             idx |-> 0]

InitCalls == calls = [p \in Callers |-> IdleCall]

Init ==
  /\ mounted \in Components
  /\ InitBb /\ InitBTS /\ InitEngine /\ InitPipeline /\ InitCalls

Next ==
  \/ Bb_analyzeMarket
  \/ Bb_TimerFires
  \/ \E resp \in Responses : Bb_Response(resp)
  \/ \E s \in tradingPairs : Bb_setSymbol(s)
  \/ Tick
  \/ BTS_analyzeMarket
  \/ \E resp \in Responses : BTS_Response(resp)

Spec == Init /\ [][Next]_vars


(***************************************************************************)
(* Bb: the decision engine, performAnalysis (jj.js 209-354).               *)
(*                                                                         *)
(* An optional number (a value that may be undefined) is <<>> when absent  *)
(* and <<v>> when it is v.  An indicator series is the object              *)
(* {values, current} of calculateIndicators; the bundle is a function from *)
(* the keys present.  Indicator values are numbers (NaN is not modelled).  *)
(* The score and the weight fields are in tenths.  The display string      *)
(* (value) of a contribution is not modelled.                              *)
(***************************************************************************)
weights == [trend |-> 30, rsi |-> 20, smaCrossover |-> 20, macd |-> 15,
            volume |-> 15, bb |-> 10, stochastic |-> 10]

\* CONFIG.analysis.thresholds, in tenths.
thresholds == [buy |-> 5, sell |-> -5]

\* A weight, or 0.7 or 0.3 of a weight, in tenths.
Tenths(w) == w * 10
SevenTenths_Whole(w) == w * 10
SevenTenths(w) == w * 7
ThreeTenths(w) == w * 3

RECURSIVE SumOver(_, _)
SumOver(f, keys) ==
  IF keys = {} THEN 0
  ELSE LET k == CHOOSE x \in keys : TRUE
       IN f[k] + SumOver(f, keys \ {k})

maxPossibleScore_LargestWeight == weights.trend

\* Object.values(weights).reduce((sum, weight) => sum + weight, 0)
maxPossibleScore == SumOver(weights, DOMAIN weights)

Series(vals) ==
  [values |-> vals,
   current |-> IF Len(vals) > 0 THEN << vals[Len(vals)] >> ELSE << >>]

\* indicators.name?.current
Current(ind, name) == IF name \in DOMAIN ind THEN ind[name].current ELSE << >>

\* indicators.currentVolume
CurrentVolume(ind) == IF "currentVolume" \in DOMAIN ind THEN ind.currentVolume ELSE << >>

\* obj.field?.length > 1
LongerThanOne(obj, field) == field \in DOMAIN obj /\ Len(obj[field]) > 1

\* arr[arr.length - 2], arr[arr.length - 1]
Previous(arr) == arr[Len(arr) - 1]
Latest(arr) == arr[Len(arr)]

\* analysis.signals.push({name, value, signal, weight}); analysis.score += delta
Push(a, name, signal, weight, delta) ==
  [a EXCEPT !.signals = Append(@, [name |-> name, signal |-> signal, weight |-> weight]),
            !.score = @ + delta]

\* x > y and x < y for a price x that may be undefined (<< >>): a comparison
\* with undefined is false.
Above(x, y) == x # << >> /\ x[1] > y
Below(x, y) == x # << >> /\ x[1] < y

\* 1. Trend analysis (jj.js 220-236).
TrendRule(a, ind, currentPrice) ==
  IF Current(ind, "sma50") # << >> /\ Current(ind, "sma200") # << >>
  THEN LET s50 == ind.sma50.current[1]
           s200 == ind.sma200.current[1]
           isUptrend == s50 > s200 /\ Above(currentPrice, s50)
           isDowntrend == s50 < s200 /\ Below(currentPrice, s50)
       IN IF isUptrend
          THEN Push(a, "Trend", "buy", Tenths(weights.trend), Tenths(weights.trend))
          ELSE IF isDowntrend
          THEN Push(a, "Trend", "sell", Tenths(weights.trend), -Tenths(weights.trend))
          ELSE Push(a, "Trend", "neutral", 0, 0)
  ELSE Push(a, "Trend", "neutral", 0, 0)

\* 2. RSI analysis (jj.js 238-251).
RsiRule(a, ind) ==
  IF Current(ind, "rsi") # << >>
  THEN IF ind.rsi.current[1] < 30
       THEN Push(a, "RSI", "buy", Tenths(weights.rsi), Tenths(weights.rsi))
       ELSE IF ind.rsi.current[1] > 70
       THEN Push(a, "RSI", "sell", Tenths(weights.rsi), -Tenths(weights.rsi))
       ELSE Push(a, "RSI", "neutral", 0, 0)
  ELSE Push(a, "RSI", "neutral", 0, 0)

\* 3. Moving averages crossover (jj.js 253-274).
CrossoverRule(a, ind) ==
  IF /\ Current(ind, "sma20") # << >> /\ Len(ind.sma20.values) > 1
     /\ Current(ind, "sma50") # << >> /\ Len(ind.sma50.values) > 1
  THEN LET previousSma20 == Previous(ind.sma20.values)
           previousSma50 == Previous(ind.sma50.values)
           sma20 == ind.sma20.current[1]
           sma50 == ind.sma50.current[1]
       IN IF sma20 > sma50 /\ previousSma20 <= previousSma50
          THEN Push(a, "MACrossover", "buy", Tenths(weights.smaCrossover),
                    Tenths(weights.smaCrossover))
          ELSE IF sma20 < sma50 /\ previousSma20 >= previousSma50
          THEN Push(a, "MACrossover", "sell", Tenths(weights.smaCrossover),
                    -Tenths(weights.smaCrossover))
          ELSE Push(a, "MACrossover", "neutral", 0, 0)
  ELSE Push(a, "MACrossover", "neutral", 0, 0)

MacdRule_HistogramFirst(a, ind) ==
  IF /\ "macd" \in DOMAIN ind
     /\ LongerThanOne(ind.macd, "MACD")
     /\ LongerThanOne(ind.macd, "signal")
     /\ LongerThanOne(ind.macd, "histogram")
  THEN LET previousMACD == Previous(ind.macd.MACD)
           previousSignal == Previous(ind.macd.signal)
           currentMACD == ind.macd.currentMACD
           currentSignal == ind.macd.currentSignal
           currentHistogram == Latest(ind.macd.histogram)
           previousHistogram == Previous(ind.macd.histogram)
       IN IF currentMACD # << >> /\ currentSignal # << >>
          THEN IF currentHistogram > 0 /\ previousHistogram <= 0
               THEN Push(a, "MACD", "buy", ThreeTenths(weights.macd),
                         ThreeTenths(weights.macd))
               ELSE IF currentHistogram < 0 /\ previousHistogram >= 0
               THEN Push(a, "MACD", "sell", ThreeTenths(weights.macd),
                         -ThreeTenths(weights.macd))
               ELSE IF currentMACD[1] > currentSignal[1] /\ previousMACD <= previousSignal
               THEN Push(a, "MACD", "buy", SevenTenths(weights.macd),
                         SevenTenths(weights.macd))
               ELSE IF currentMACD[1] < currentSignal[1] /\ previousMACD >= previousSignal
               THEN Push(a, "MACD", "sell", SevenTenths(weights.macd),
                         -SevenTenths(weights.macd))
               ELSE Push(a, "MACD", "neutral", 0, 0)
          ELSE Push(a, "MACD", "neutral", 0, 0)
  ELSE Push(a, "MACD", "neutral", 0, 0)

\* 4. MACD analysis (jj.js 276-313).
MacdRule(a, ind) ==
  IF /\ "macd" \in DOMAIN ind
     /\ LongerThanOne(ind.macd, "MACD")
     /\ LongerThanOne(ind.macd, "signal")
     /\ LongerThanOne(ind.macd, "histogram")
  THEN LET previousMACD == Previous(ind.macd.MACD)
           previousSignal == Previous(ind.macd.signal)
           currentMACD == ind.macd.currentMACD
           currentSignal == ind.macd.currentSignal
           currentHistogram == Latest(ind.macd.histogram)
           previousHistogram == Previous(ind.macd.histogram)
       IN IF currentMACD # << >> /\ currentSignal # << >>
          THEN IF currentMACD[1] > currentSignal[1] /\ previousMACD <= previousSignal
               THEN Push(a, "MACD", "buy", SevenTenths(weights.macd),
                         SevenTenths(weights.macd))
               ELSE IF currentMACD[1] < currentSignal[1] /\ previousMACD >= previousSignal
               THEN Push(a, "MACD", "sell", SevenTenths(weights.macd),
                         -SevenTenths(weights.macd))
               ELSE IF currentHistogram > 0 /\ previousHistogram <= 0
               THEN Push(a, "MACD", "buy", ThreeTenths(weights.macd),
                         ThreeTenths(weights.macd))
               ELSE IF currentHistogram < 0 /\ previousHistogram >= 0
               THEN Push(a, "MACD", "sell", ThreeTenths(weights.macd),
                         -ThreeTenths(weights.macd))
               ELSE Push(a, "MACD", "neutral", 0, 0)
          ELSE Push(a, "MACD", "neutral", 0, 0)
  ELSE Push(a, "MACD", "neutral", 0, 0)

RatioAbove_Inclusive(currentVolume, average) ==
  currentVolume # << >> /\ 2 * currentVolume[1] >= 3 * average

\* volumeRatio > 1.5, where volumeRatio is currentVolume / volumeSma20.current,
\* or 0 when currentVolume is undefined.  Volumes are not negative: for an
\* average of 0 the quotient is Infinity (above 1.5) or, for 0 / 0, NaN (not
\* above), which is what the cross-multiplication gives.
RatioAbove(currentVolume, average) ==
  currentVolume # << >> /\ 2 * currentVolume[1] > 3 * average

\* 5. Volume analysis (jj.js 315-334).
VolumeRule_DropsInsufficient(a, ind, currentPrice, previousPrice) ==
  IF /\ Current(ind, "volumeSma20") # << >>
     /\ currentPrice # << >> /\ previousPrice # << >>
  THEN LET high == RatioAbove(CurrentVolume(ind), ind.volumeSma20.current[1])
       IN IF high /\ currentPrice[1] > previousPrice[1]
          THEN Push(a, "Volume", "buy", Tenths(weights.volume), Tenths(weights.volume))
          ELSE IF high /\ currentPrice[1] < previousPrice[1]
          THEN Push(a, "Volume", "sell", Tenths(weights.volume), -Tenths(weights.volume))
          ELSE Push(a, "Volume", "neutral", 0, 0)
  ELSE a

VolumeRule(a, ind, currentPrice, previousPrice) ==
  IF /\ Current(ind, "volumeSma20") # << >>
     /\ currentPrice # << >> /\ previousPrice # << >>
  THEN LET high == RatioAbove(CurrentVolume(ind), ind.volumeSma20.current[1])
       IN IF high /\ currentPrice[1] > previousPrice[1]
          THEN Push(a, "Volume", "buy", Tenths(weights.volume), Tenths(weights.volume))
          ELSE IF high /\ currentPrice[1] < previousPrice[1]
          THEN Push(a, "Volume", "sell", Tenths(weights.volume), -Tenths(weights.volume))
          ELSE Push(a, "Volume", "neutral", 0, 0)
  ELSE Push(a, "Volume", "neutral", 0, 0)

\* maxPossibleScore * CONFIG.analysis.thresholds.buy (.sell), in tenths.
buyThreshold == maxPossibleScore * thresholds.buy
sellThreshold == maxPossibleScore * thresholds.sell

Abs(x) == IF x < 0 THEN -x ELSE x

\* Math.min(1, num / den) as the fraction <<num, den>>; 1 when den <= 0.
Confidence(num, den) ==
  IF den > 0 THEN (IF num >= den THEN <<1, 1>> ELSE <<num, den>>) ELSE <<1, 1>>

\* Determine Final Decision (jj.js 336-353).
Decide(a) ==
  IF a.score >= buyThreshold
  THEN [a EXCEPT !.decision = "buy",
                 !.confidence = Confidence(a.score - buyThreshold,
                                           Tenths(maxPossibleScore) - buyThreshold)]
  ELSE IF a.score <= sellThreshold
  THEN [a EXCEPT !.decision = "sell",
                 !.confidence = Confidence(Abs(a.score) - Abs(sellThreshold),
                                           Tenths(maxPossibleScore) - Abs(sellThreshold))]
  ELSE [a EXCEPT !.decision = "neutral", !.confidence = <<0, 1>>]

NewAnalysis == [signals |-> << >>, score |-> 0, decision |-> "neutral",
                confidence |-> <<0, 1>>]

performAnalysis(ind, currentPrice, previousPrice) ==
  Decide(
    VolumeRule(
      MacdRule(
        CrossoverRule(
          RsiRule(
            TrendRule(NewAnalysis, ind, currentPrice),
            ind),
          ind),
        ind),
      ind, currentPrice, previousPrice))

(***************************************************************************)
(* Literal inputs of the decision engine.                                  *)
(***************************************************************************)
MacdGroup(line, signal, histogram) ==
  [MACD |-> line, signal |-> signal, histogram |-> histogram,
   currentMACD |-> Series(line).current,
   currentSignal |-> Series(signal).current,
   currentHistogram |-> Series(histogram).current]

\* The object {} that calculateIndicators returns for macd below 34 closes.
EmptyObject == << >>

Sma200Inputs == { << >>, <<1>>, <<3>> }
Sma50Inputs == { << >>, <<2>>, <<2, 2>> }
Sma20Inputs == { << >>, <<3>>, <<1, 3>>, <<2, 3>>, <<3, 1>>, <<3, 3>> }
RsiInputs == { << >>, <<25>>, <<30>>, <<70>>, <<75>> }
MacdLineInputs == { <<1>>, <<-1, 1>>, <<1, -1>>, <<1, 1>> }
MacdSignalInputs == { <<0>>, <<0, 0>> }
HistogramInputs == { << >>, <<-1, 1>>, <<1, -1>>, <<1, 1>> }
MacdInputs ==
  { EmptyObject, MacdGroup(<< >>, << >>, << >>) } \cup
  { MacdGroup(l, g, h) : l \in MacdLineInputs, g \in MacdSignalInputs,
                         h \in HistogramInputs }
VolumeSmaInputs == { << >>, <<2>> }
CurrentVolumeInputs == { << >>, <<3>>, <<4>> }
\* <<currentPrice, previousPrice>>; << >> is undefined.
PriceInputs == { << <<1>>, <<2>> >>, << <<2>>, <<2>> >>, << <<3>>, <<2>> >>,
                 << <<3>>, << >> >>, << << >>, << >> >> }

Bundle(s20, s50, s200, r, m, v, cv) ==
  [sma20 |-> Series(s20), sma50 |-> Series(s50), sma200 |-> Series(s200),
   rsi |-> Series(r), macd |-> m, volumeSma20 |-> Series(v), currentVolume |-> cv]

\* A bundle with only the keys of the set keys.
Restrict(b, keys) == [k \in DOMAIN b \cap keys |-> b[k]]

\* Two bundles in which every rule fires, in the buy and in the sell direction.
AllBuyBundle ==
  Bundle(<<1, 3>>, <<2, 2>>, <<1>>, <<25>>,
         MacdGroup(<<-1, 1>>, <<0, 0>>, <<-1, 1>>), <<2>>, <<4>>)
AllSellBundle ==
  Bundle(<<3, 1>>, <<2, 2>>, <<3>>, <<75>>,
         MacdGroup(<<1, -1>>, <<0, 0>>, <<1, -1>>), <<2>>, <<4>>)

\* The same two with any subset of the keys missing.
SparseBundles ==
  { Restrict(b, keys) : b \in {AllBuyBundle, AllSellBundle},
                        keys \in SUBSET DOMAIN AllBuyBundle }

FullBundles ==
  { Bundle(s20, s50, s200, r, m, v, cv) :
      s20 \in Sma20Inputs, s50 \in Sma50Inputs, s200 \in Sma200Inputs,
      r \in RsiInputs, m \in MacdInputs, v \in VolumeSmaInputs,
      cv \in CurrentVolumeInputs }

EngineInputs ==
  { [indicators |-> b, currentPrice |-> p[1], previousPrice |-> p[2]] :
      b \in FullBundles \cup SparseBundles, p \in PriceInputs }

\* The engine is called on a literal input.
Eng_performAnalysis ==
  /\ input # << >>
  /\ analysis = << >>
  /\ analysis' = << performAnalysis(input[1].indicators, input[1].currentPrice,
                                    input[1].previousPrice) >>
  /\ UNCHANGED <<input, mounted, bbVars, btsVars, pipeVars, conVars>>

InitEngineInput ==
  /\ input \in { <<i>> : i \in EngineInputs }
  /\ analysis = << >>

InitSpecEngine ==
  /\ mounted = "Bb"
  /\ InitBb /\ InitBTS /\ InitEngineInput /\ InitPipeline /\ InitCalls

NextEngine == Eng_performAnalysis

SpecEngine == InitSpecEngine /\ [][NextEngine]_vars

(***************************************************************************)
(* The indicator pipeline: calculateIndicators (jj.js 131-206).            *)
(* sma, rsi, macd, bollingerbands and stochastic are functions of the      *)
(* package technicalindicators, which is not part of the repository: what  *)
(* a call returns is an input of the model (library), one of undefined, an *)
(* array, or an object of named arrays, and is not tied to the series.     *)
(***************************************************************************)
LibUndefined == [kind |-> "undefined"]
LibArray(vals) == [kind |-> "array", values |-> vals]
LibObject(fields) == [kind |-> "object", fields |-> fields]

\* The null that stands for macd, bollingerbands and stochastic when the
\* series is too short.
NotComputed == [kind |-> "null"]

\* x ? ... : ...  for an answer x
Defined(x) == x.kind \in {"array", "object"}

\* x || []  for the answer x of sma or rsi
OrEmpty(x) == IF x.kind = "array" THEN x.values ELSE << >>

\* x.field || []  (an array has no property of that name)
FieldOrEmpty(x, field) ==
  IF x.kind = "object" /\ field \in DOMAIN x.fields THEN x.fields[field] ELSE << >>

\* values.length >= period
Enough_Always(values, period) == TRUE
Enough_Strict(values, period) == Len(values) > period
Enough(values, period) == Len(values) >= period

Computed(value) == [called |-> TRUE, value |-> value]
Skipped(value) == [called |-> FALSE, value |-> value]

\* klines.map(k => parseFloat(k[4])), and k[5], k[2], k[3]
closePrices(klines) == [i \in 1..Len(klines) |-> klines[i].close]
volumes(klines) == [i \in 1..Len(klines) |-> klines[i].volume]
highPrices(klines) == [i \in 1..Len(klines) |-> klines[i].high]
lowPrices(klines) == [i \in 1..Len(klines) |-> klines[i].low]

\* const indicators = {...} (jj.js 146-173): per indicator, whether the
\* library was called and the value kept.
RawIndicators(klines, lib) ==
  [sma20 |-> IF Enough(closePrices(klines), 20)
             THEN Computed(OrEmpty(lib.sma20)) ELSE Skipped(<< >>),
   sma50 |-> IF Enough(closePrices(klines), 50)
             THEN Computed(OrEmpty(lib.sma50)) ELSE Skipped(<< >>),
   sma200 |-> IF Enough(closePrices(klines), 200)
              THEN Computed(OrEmpty(lib.sma200)) ELSE Skipped(<< >>),
   rsi |-> IF Enough(closePrices(klines), 14)
           THEN Computed(OrEmpty(lib.rsi)) ELSE Skipped(<< >>),
   macd |-> IF Enough(closePrices(klines), 34)
            THEN Computed(lib.macd) ELSE Skipped(NotComputed),
   bollingerbands |-> IF Enough(closePrices(klines), 20)
                      THEN Computed(lib.bollingerbands) ELSE Skipped(NotComputed),
   stochastic |-> IF /\ Enough(highPrices(klines), 18)
                     /\ Enough(lowPrices(klines), 18)
                     /\ Enough(closePrices(klines), 18)
                  THEN Computed(lib.stochastic) ELSE Skipped(NotComputed),
   volumeSma20 |-> IF Enough(volumes(klines), 20)
                   THEN Computed(OrEmpty(lib.volumeSma20)) ELSE Skipped(<< >>)]

BollingerGroup(upper, middle, lower) ==
  [upper |-> upper, middle |-> middle, lower |-> lower,
   currentUpper |-> Series(upper).current,
   currentMiddle |-> Series(middle).current,
   currentLower |-> Series(lower).current]

StochasticGroup(k, d) ==
  [k |-> k, d |-> d, currentK |-> Series(k).current, currentD |-> Series(d).current]

\* The object calculateIndicators returns (jj.js 176-205).
calculateIndicators(klines, lib) ==
  LET indicators == RawIndicators(klines, lib)
      m == indicators.macd.value
      b == indicators.bollingerbands.value
      st == indicators.stochastic.value
  IN [sma20 |-> Series(indicators.sma20.value),
      sma50 |-> Series(indicators.sma50.value),
      sma200 |-> Series(indicators.sma200.value),
      rsi |-> Series(indicators.rsi.value),
      macd |-> IF Defined(m)
               THEN MacdGroup(FieldOrEmpty(m, "MACD"), FieldOrEmpty(m, "signal"),
                              FieldOrEmpty(m, "histogram"))
               ELSE EmptyObject,
      bollingerbands |-> IF Defined(b)
                         THEN BollingerGroup(FieldOrEmpty(b, "upper"),
                                             FieldOrEmpty(b, "middle"),
                                             FieldOrEmpty(b, "lower"))
                         ELSE EmptyObject,
      stochastic |-> IF Defined(st)
                     THEN StochasticGroup(FieldOrEmpty(st, "k"), FieldOrEmpty(st, "d"))
                     ELSE EmptyObject,
      volumeSma20 |-> Series(indicators.volumeSma20.value),
      currentVolume |-> Series(volumes(klines)).current]

\* The indicators the library is called for.
LibraryCalls(klines, lib) ==
  { name \in DOMAIN RawIndicators(klines, lib) : RawIndicators(klines, lib)[name].called }

\* prices[prices.length - 1] and prices[prices.length - 2], or undefined
\* (jj.js 522-524).
CurrentPrice(klines) == Series(closePrices(klines)).current
PreviousPrice(klines) ==
  IF Len(klines) > 1 THEN << closePrices(klines)[Len(klines) - 1] >> ELSE << >>

(***************************************************************************)
(* Literal inputs of the pipeline: series of every length around the       *)
(* minimum periods, and the answers of the library.                        *)
(***************************************************************************)
Candle(close) == [high |-> 3, low |-> 1, close |-> close, volume |-> 4]

\* n candles closing at 2, the last one at last.
CandleSeries(n, last) == [i \in 1..n |-> Candle(IF i = n THEN last ELSE 2)]

SeriesLengths == {0, 1, 2, 13, 14, 15, 16, 17, 18, 19, 20, 21, 33, 34, 35,
                  49, 50, 51, 199, 200, 201, 300}
LastCloses == {1, 2, 3}

Sma20Answers == { LibUndefined, LibArray(<<3>>), LibArray(<<1, 3>>) }
Sma50Answers == { LibUndefined, LibArray(<<2, 2>>) }
Sma200Answers == { LibArray(<<1>>), LibArray(<<3>>) }
RsiAnswers == { LibArray(<< >>), LibArray(<<25>>) }
\* undefined, an array (of objects: it has no property MACD, signal or
\* histogram), or an object of three arrays.
MacdAnswers ==
  { LibUndefined, LibArray(<< >>),
    LibObject([MACD |-> <<-1, 1>>, signal |-> <<0, 0>>, histogram |-> <<-1, 1>>]) }
BollingerAnswers ==
  { LibArray(<< >>),
    LibObject([upper |-> <<3, 3>>, middle |-> <<2, 2>>, lower |-> <<1, 1>>]) }
StochasticAnswers == { LibArray(<< >>), LibObject([k |-> <<50>>, d |-> <<50>>]) }
VolumeSmaAnswers == { LibUndefined, LibArray(<<2>>) }

Libraries ==
  [sma20 : Sma20Answers, sma50 : Sma50Answers, sma200 : Sma200Answers,
   rsi : RsiAnswers, macd : MacdAnswers, bollingerbands : BollingerAnswers,
   stochastic : StochasticAnswers, volumeSma20 : VolumeSmaAnswers]

PipelineInputs ==
  { [klines |-> CandleSeries(n, c), library |-> lib] :
      n \in SeriesLengths, c \in LastCloses, lib \in Libraries }

\* calculateIndicators is called on a literal series.
Pipe_calculateIndicators ==
  /\ pipeInput # << >>
  /\ bundle = << >>
  /\ bundle' = << calculateIndicators(pipeInput[1].klines, pipeInput[1].library) >>
  /\ libCalls' = LibraryCalls(pipeInput[1].klines, pipeInput[1].library)
  /\ UNCHANGED <<pipeInput, mounted, bbVars, btsVars, engVars, conVars>>

\* performAnalysis is called on the bundle and the last two closes
\* (jj.js 522-524, 530-531).
Pipe_performAnalysis ==
  /\ bundle # << >>
  /\ analysis = << >>
  /\ input' = << [indicators |-> bundle[1],
                  currentPrice |-> CurrentPrice(pipeInput[1].klines),
                  previousPrice |-> PreviousPrice(pipeInput[1].klines)] >>
  /\ analysis' = << performAnalysis(bundle[1], CurrentPrice(pipeInput[1].klines),
                                    PreviousPrice(pipeInput[1].klines)) >>
  /\ UNCHANGED <<mounted, bbVars, btsVars, pipeVars, conVars>>

InitSpecPipeline ==
  /\ mounted = "Bb"
  /\ InitBb /\ InitBTS /\ InitEngine /\ InitCalls
  /\ pipeInput \in { <<i>> : i \in PipelineInputs }
  /\ bundle = << >>
  /\ libCalls = {}

NextPipeline ==
  \/ Pipe_calculateIndicators
  \/ Pipe_performAnalysis

SpecPipeline == InitSpecPipeline /\ [][NextPipeline]_vars

(***************************************************************************)
(* Fetches in flight at the same time.  In Bb the callers call fetchKlines *)
(* (jj.js 91-128) directly: the page itself disables its button while a    *)
(* run is in flight (jj.js 606).  In BinanceTradingSystem the button is    *)
(* never disabled (part_000 219-220), so a click starts a run while        *)
(* another one is in flight.  A call record keeps the timestamp the call   *)
(* read (seen) and the time of its last fetch() (at).                      *)
(***************************************************************************)
NoCallInFlight(c) == c.pc \in {"idle", "returned", "threw"}

\* fetchKlines up to its first suspension: the cache test, the read of
\* lastRequestTime and the throttle test run without interruption.
Con_fetchKlines(p, key) ==
  /\ mounted = "Bb"
  /\ NoCallInFlight(calls[p])
  /\ LET delay == RateDelay(now, lastRequestTime)
         c == [IdleCall EXCEPT !.key = key, !.seen = lastRequestTime]
     IN calls' = [calls EXCEPT ![p] =
                    IF CacheHit(cachedData, key)
                    THEN [IdleCall EXCEPT !.key = key, !.pc = "returned"]
                    ELSE IF delay > 0
                    THEN [c EXCEPT !.pc = "waiting", !.wakeAt = now + delay]
                    ELSE [c EXCEPT !.pc = "fetching", !.at = now]]
  /\ UNCHANGED <<mounted, bbVars, btsVars, engVars, pipeVars>>

\* The throttle timer of a call fires: fetch(apiUrl) is called.
Con_TimerFires(p) ==
  /\ mounted = "Bb"
  /\ calls[p].pc = "waiting"
  /\ now >= calls[p].wakeAt
  /\ calls' = [calls EXCEPT ![p] = [@ EXCEPT !.pc = "fetching", !.at = now]]
  /\ UNCHANGED <<mounted, bbVars, btsVars, engVars, pipeVars>>

\* The network answers a call: the rest of fetchKlines.
Con_Response(p, resp) ==
  /\ mounted = "Bb"
  /\ calls[p].pc = "fetching"
  /\ IF resp.kind = "json"
     THEN /\ cachedData' = CacheStore(cachedData, calls[p].key, resp.body)
          /\ lastRequestTime' = now
          /\ calls' = [calls EXCEPT ![p] = [@ EXCEPT !.pc = "returned"]]
     ELSE /\ calls' = [calls EXCEPT ![p] = [@ EXCEPT !.pc = "threw"]]
          /\ UNCHANGED <<cachedData, lastRequestTime>>
  /\ UNCHANGED <<symbol, timeframe, isLoading, results, error, now, run, netLog>>
  /\ UNCHANGED <<mounted, btsVars, engVars, pipeVars>>

\* A click on the button of BinanceTradingSystem: analyzeMarket up to the
\* first fetch() (part_000 65-70, 39-41).
Con_BTS_analyzeMarket(p) ==
  /\ mounted = "BTS"
  /\ NoCallInFlight(calls[p])
  /\ bIsLoading' = TRUE
  /\ bError' = "null"
  /\ calls' = [calls EXCEPT ![p] =
                 [IdleCall EXCEPT !.pc = "fetching", !.idx = 1, !.at = now]]
  /\ UNCHANGED <<bResults, bRun, bRuns>>
  /\ UNCHANGED <<mounted, bbVars, engVars, pipeVars>>

\* The endpoint a run has in flight answers (part_000 39-61, 71-97).
Con_BTS_Response(p, resp) ==
  /\ mounted = "BTS"
  /\ calls[p].pc = "fetching"
  /\ IF BTS_Satisfying(resp)
     THEN /\ calls' = [calls EXCEPT ![p] = [@ EXCEPT !.pc = "returned"]]
          /\ bError' = BTS_ErrorOf(resp.body)
          /\ bResults' = IF BTS_ErrorOf(resp.body) = "null"
                         THEN << [symbol |-> "BTCUSDT", klines |-> resp.body] >>
                         ELSE bResults
          /\ bIsLoading' = FALSE
     ELSE IF BTS_Exhausted(calls[p].idx)
     THEN /\ calls' = [calls EXCEPT ![p] = [@ EXCEPT !.pc = "threw"]]
          /\ bError' = "DataUnavailable"
          /\ bIsLoading' = FALSE
          /\ UNCHANGED bResults
     ELSE /\ calls' = [calls EXCEPT ![p] =
                         [@ EXCEPT !.idx = BTS_NextIndex(@), !.at = now]]
          /\ UNCHANGED <<bIsLoading, bResults, bError>>
  /\ UNCHANGED <<bRun, bRuns>>
  /\ UNCHANGED <<mounted, bbVars, engVars, pipeVars>>

\* Time passes.
Con_Tick ==
  /\ now + TimeStep <= MaxTime
  /\ now' = now + TimeStep
  /\ UNCHANGED <<symbol, timeframe, isLoading, results, error, lastRequestTime,
                 cachedData, run, netLog>>
  /\ UNCHANGED <<mounted, btsVars, engVars, pipeVars, conVars>>

NextConcurrent ==
  \/ \E p \in Callers, key \in Keys : Con_fetchKlines(p, key)
  \/ \E p \in Callers : Con_TimerFires(p)
  \/ \E p \in Callers, resp \in Responses : Con_Response(p, resp)
  \/ \E p \in Callers : Con_BTS_analyzeMarket(p)
  \/ \E p \in Callers, resp \in Responses : Con_BTS_Response(p, resp)
  \/ Con_Tick

SpecConcurrent == Init /\ [][NextConcurrent]_vars

(***************************************************************************)
(* Claims about the fetchers and the analysis run (checked under Spec).    *)
(***************************************************************************)
Calls == 1..Len(netLog)

\* C1: once fetchKlines has completed successfully for a key, no later call
\* with the same key issues a network request or waits for the throttle.
C1_CachedKeyNeverRefetched ==
  /\ \A i, j \in Calls :
       (i < j /\ netLog[i].key = netLog[j].key) => netLog[i].status # "ok"
  /\ run.pc = "waiting" =>
       \A i \in Calls : ~(netLog[i].key = run.key /\ netLog[i].status = "ok")

\* C2 (as claimed): any two consecutive network requests are at least
\* RateLimit apart, whether the earlier one succeeded or failed.
C2_RequestsSpacedByRateLimit ==
  \A i \in Calls : i + 1 \in Calls => netLog[i + 1].at - netLog[i].at >= RateLimit

\* C2 (amended): every network request is issued at least RateLimit after
\* the response of every earlier successful request (the moment
\* lastRequestTime is set), whatever the keys of the two requests.
C2_RequestsSpacedAfterSuccess ==
  /\ \A i, j \in Calls :
       (i < j /\ netLog[i].status = "ok") =>
         netLog[j].at >= netLog[i].doneAt + RateLimit
  /\ \A i \in Calls : netLog[i].status = "ok" => lastRequestTime >= netLog[i].doneAt

\* C2 witness: a request for another key issued exactly RateLimit after a
\* successful response, after waiting for the throttle timer.
C2_Witness ==
  \E i \in Calls :
    /\ i + 1 \in Calls
    /\ netLog[i].status = "ok"
    /\ netLog[i + 1].key # netLog[i].key
    /\ netLog[i + 1].at = netLog[i].doneAt + RateLimit
    /\ run.wakeAt = netLog[i + 1].at

Attempted == 1..Len(bRun.responses)

\* C3: within one fetch the endpoints are requested in list order, each at
\* most once, and the first satisfying response ends the fetch and is what it
\* returns; after two transport errors and a full-length payload from the
\* third endpoint the fourth is never requested.
C3_EndpointsInOrderStopAtFirstSatisfying ==
  /\ Len(bRun.attempts) <= Len(endpoints)
  /\ bRun.attempts = SubSeq(endpoints, 1, Len(bRun.attempts))
  /\ Len(bRun.attempts) = IF bRun.pc = "fetching" THEN Len(bRun.responses) + 1
                          ELSE Len(bRun.responses)
  /\ \A i \in Attempted :
       BTS_Satisfying(bRun.responses[i]) =>
         /\ i = Len(bRun.responses)
         /\ bRun.pc = "idle"
         /\ bRun.outcome = "returned"
         /\ bRun.klines = bRun.responses[i].body
  /\ ( /\ Len(bRun.responses) >= 3
       /\ bRun.responses[1].kind = "transport"
       /\ bRun.responses[2].kind = "transport"
       /\ bRun.responses[3] = Response("json", CandleArray(300, 300)) )
     => /\ bRun.outcome = "returned"
        /\ bRun.klines = CandleArray(300, 300)
        /\ bRun.attempts = SubSeq(endpoints, 1, 3)

\* C3 witness: two transport errors, then the third endpoint's payload is
\* returned.
C3_Witness ==
  /\ bRun.outcome = "returned"
  /\ Len(bRun.responses) = 3
  /\ bRun.responses[1].kind = "transport"
  /\ bRun.responses[2].kind = "transport"
  /\ bRun.klines = CandleArray(300, 300)
  /\ bResults # <<>>

\* C4: a fetch fails with DataUnavailable exactly when every configured
\* endpoint has been requested and none gave a satisfying response; the
\* single-endpoint fetcher of Bb fails only after its request has failed.
C4_DataUnavailableIffExhausted ==
  /\ (bRun.pc = "idle" /\ bRun.outcome # "none") =>
       ( bRun.outcome = "threw"
         <=> /\ bRun.attempts = endpoints
             /\ Len(bRun.responses) = Len(endpoints)
             /\ \A i \in Attempted : ~BTS_Satisfying(bRun.responses[i]) )
  /\ bRun.outcome = "threw" <=> bError = "DataUnavailable"
  /\ bRun.pc = "fetching" => bRun.outcome = "none"
  /\ run.outcome = "threw" =>
       /\ netLog # << >>
       /\ netLog[Len(netLog)].key = run.key
       /\ netLog[Len(netLog)].status = "failed"

\* C4 witness: all four endpoints were requested and the fetch failed.
C4_Witness ==
  /\ bError = "DataUnavailable"
  /\ Len(bRun.attempts) = 4
  /\ bRun.responses[4].kind = "json"

ShortSeries(b, min) == IsCandleSeries(b) /\ b.len < min

\* C5 (as claimed): whenever an endpoint has answered a fetch with a candle
\* series shorter than the caller's minimum, the series is in the cache under
\* its key and the finished run shows InsufficientData and no results.
C5_ShortSeriesCachedAndInsufficientData ==
  /\ (run.pc = "idle" /\ run.outcome = "returned"
        /\ ShortSeries(run.klines, MinDataPoints)) =>
       /\ error = "InsufficientData"
       /\ results = <<>>
       /\ Lookup(cachedData, run.key) = run.klines
  /\ (bRun.pc = "idle" /\ \E i \in Attempted :
        /\ bRun.responses[i].kind = "json"
        /\ ShortSeries(bRun.responses[i].body, BTS_MinLength)) =>
       /\ bError = "InsufficientData"
       /\ bRun.klines = bRun.responses[Len(bRun.responses)].body

\* C5 (amended): in Bb, a run whose fetch returned a candle series shorter
\* than MinDataPoints ends with the series cached under its key,
\* InsufficientData and no results; from then on the entry stays, no request
\* is issued for that key, and a run started on that key returns the entry.
C5_Bb_ShortSeriesState ==
  (run.pc = "idle" /\ run.outcome = "returned"
     /\ ShortSeries(run.klines, MinDataPoints)) =>
    /\ error = "InsufficientData"
    /\ results = <<>>
    /\ Lookup(cachedData, run.key) = run.klines

C5_Bb_ShortSeriesStep ==
  \A k \in Keys :
    ShortSeries(Lookup(cachedData, k), MinDataPoints) =>
      /\ Lookup(cachedData', k) = Lookup(cachedData, k)
      /\ \A i \in 1..Len(netLog') : netLog'[i].key = k => i \in Calls
      /\ (run'.key = k /\ run' # run) =>
           /\ run'.pc = "idle"
           /\ run'.source = "cache"
           /\ run'.klines = Lookup(cachedData, k)
           /\ error' = "InsufficientData"

\* C5 (amended), state and step together: in Bb a short candle series that
\* a fetch returned is cached with InsufficientData shown, and stays the
\* answer of every later fetch of its key, with no further request.
C5_Bb_ShortSeriesCached ==
  [](C5_Bb_ShortSeriesState) /\ [][C5_Bb_ShortSeriesStep]_vars

\* C5 witness: a later run on the same key returned the short series from
\* the cache.
C5_Witness ==
  /\ run.pc = "idle"
  /\ run.source = "cache"
  /\ run.klines = CandleArray(60, 60)
  /\ error = "InsufficientData"
  /\ Len(netLog) = 1

\* C6: a decoded body that is not a sequence of candle records is never put
\* in the cache and never returned by a fetch.
C6_NonCandleBodyNeverAccepted ==
  /\ \A k \in DOMAIN cachedData : IsCandleSeries(cachedData[k])
  /\ run.outcome = "returned" => IsCandleSeries(run.klines)
  /\ bRun.outcome = "returned" => IsCandleSeries(bRun.klines)

\* C7: a finished run shows either an error and no results, or results and
\* no error.
C7_FailureExposesErrorAndNoResults ==
  /\ (run.pc = "idle" /\ run.outcome # "none") =>
       (error # "null" <=> results = <<>>)
  /\ (bRun.pc = "idle" /\ bRun.outcome # "none") =>
       (bError # "null" <=> bResults = <<>>)


(***************************************************************************)
(* Claims about the decision engine (checked under SpecEngine).            *)
(***************************************************************************)
RuleNames == << "Trend", "RSI", "MACrossover", "MACD", "Volume" >>

Neutral(c) == c.signal = "neutral" /\ c.weight = 0

MacdCurrentAbsent(ind) ==
  \/ "macd" \notin DOMAIN ind
  \/ "currentMACD" \notin DOMAIN ind.macd
  \/ ind.macd.currentMACD = << >>
  \/ ind.macd.currentSignal = << >>
  \/ ind.macd.currentHistogram = << >>

\* C8: performAnalysis returns exactly five contributions, one per rule, in
\* the order Trend, RSI, MA crossover, MACD, Volume, and a rule whose
\* indicator has no current value contributes a neutral entry of weight 0.
C8_FiveContributionsInOrder ==
  analysis # << >> =>
    LET a == analysis[1]
        ind == input[1].indicators
    IN /\ Len(a.signals) = 5
       /\ \A i \in 1..Len(a.signals) : a.signals[i].name = RuleNames[i]
       /\ (Current(ind, "sma50") = << >> \/ Current(ind, "sma200") = << >>)
            => Neutral(a.signals[1])
       /\ Current(ind, "rsi") = << >> => Neutral(a.signals[2])
       /\ (Current(ind, "sma20") = << >> \/ Current(ind, "sma50") = << >>)
            => Neutral(a.signals[3])
       /\ MacdCurrentAbsent(ind) => Neutral(a.signals[4])
       /\ (Current(ind, "volumeSma20") = << >> \/ CurrentVolume(ind) = << >>)
            => Neutral(a.signals[5])

\* C8 witness: a bundle without the rsi and volumeSma20 keys whose trend
\* rule fires.
C8_Witness ==
  /\ analysis # << >>
  /\ DOMAIN input[1].indicators = {"sma20", "sma50", "sma200", "macd", "currentVolume"}
  /\ Len(analysis[1].signals) = 5
  /\ analysis[1].signals[1].signal = "sell"
  /\ Neutral(analysis[1].signals[2])
  /\ Neutral(analysis[1].signals[5])

RECURSIVE SumWeightFields(_)
SumWeightFields(signals) ==
  IF signals = << >> THEN 0
  ELSE signals[1].weight + SumWeightFields(Tail(signals))

\* C9: the weight field of every contribution is the signed amount applied
\* to the score (positive for buy, negative for sell, 0 for neutral), and
\* the score is the sum of the weight fields.
C9_ScoreIsSumOfWeightFields ==
  analysis # << >> =>
    LET a == analysis[1]
    IN /\ a.score = SumWeightFields(a.signals)
       /\ \A i \in 1..Len(a.signals) :
            /\ a.signals[i].signal = "buy" => a.signals[i].weight > 0
            /\ a.signals[i].signal = "sell" => a.signals[i].weight < 0
            /\ a.signals[i].signal = "neutral" => a.signals[i].weight = 0

\* C10: the thresholds are 50 and -50 (half of 30+20+20+15+15 = 100): the
\* decision is buy from a score of 50 up, sell from -50 down and neutral
\* in between (scores in tenths).
C10_ThresholdsAtFifty ==
  analysis # << >> =>
    LET a == analysis[1]
    IN a.decision = IF a.score >= Tenths(50) THEN "buy"
                    ELSE IF a.score <= -Tenths(50) THEN "sell"
                    ELSE "neutral"

\* C11: the returned score lies in [-maxPossibleScore, +maxPossibleScore],
\* the returned confidence lies in [0, 1], and the confidence is 0 whenever
\* the decision is neutral.
C11_ScoreAndConfidenceBounded ==
  analysis # << >> =>
    LET a == analysis[1]
    IN /\ a.score >= -Tenths(maxPossibleScore)
       /\ a.score <= Tenths(maxPossibleScore)
       /\ a.confidence[2] > 0
       /\ a.confidence[1] >= 0
       /\ a.confidence[1] <= a.confidence[2]
       /\ a.decision = "neutral" => a.confidence[1] = 0

\* C11 witness: a sell decision whose confidence is strictly between 0 and
\* 1, and a negative score.
C11_Witness ==
  /\ analysis # << >>
  /\ analysis[1].decision = "sell"
  /\ analysis[1].score < 0
  /\ analysis[1].confidence[1] > 0
  /\ analysis[1].confidence[1] < analysis[1].confidence[2]

AllBuy(a) == \A i \in 1..Len(a.signals) : a.signals[i].signal = "buy"

\* C12 as stated: a score equal to maxPossibleScore gives the decision buy
\* with confidence 1, and the score equals maxPossibleScore when every rule
\* fires in the buy direction.
C12_MaxScoreAttainedWhenAllBuy ==
  analysis # << >> =>
    LET a == analysis[1]
    IN /\ a.score = Tenths(maxPossibleScore)
            => a.decision = "buy" /\ a.confidence = <<1, 1>>
       /\ AllBuy(a) => a.score = Tenths(maxPossibleScore)

\* C12 amended: the score never reaches maxPossibleScore; when every rule
\* fires in the buy direction the score is 95.5 (MACD crossover) or 89.5
\* (histogram flip only), the decision is buy and the confidence is
\* (score - 60) / 60, below 1 (scores in tenths).
C12_AllBuyStaysBelowMaximum ==
  analysis # << >> =>
    LET a == analysis[1]
    IN /\ a.score < Tenths(maxPossibleScore)
       /\ AllBuy(a) =>
            /\ a.score \in {895, 955}
            /\ a.decision = "buy"
            /\ a.confidence = <<a.score - 600, 600>>
            /\ a.confidence[1] < a.confidence[2]

\* C12 witness: every rule fired in the buy direction, the MACD rule on a
\* crossover.
C12_Witness ==
  /\ analysis # << >>
  /\ Len(analysis[1].signals) = 5
  /\ AllBuy(analysis[1])
  /\ analysis[1].score = 955
  /\ analysis[1].decision = "buy"

\* The amount a contribution applies to the score: its weight for buy, minus
\* its weight for sell.
Applied(c) == IF c.signal = "sell" THEN -c.weight ELSE c.weight

RECURSIVE SumApplied(_)
SumApplied(signals) ==
  IF signals = << >> THEN 0
  ELSE Applied(signals[1]) + SumApplied(Tail(signals))

AtLeastTwo(obj, field) == field \in DOMAIN obj /\ Len(obj[field]) >= 2

\* The MACD contribution the cascade of C13 gives: <<direction, amount>>,
\* amounts in tenths (0.7 * 15 = 10.5, 0.3 * 15 = 4.5).
C13_Cascade(ind) ==
  IF /\ "macd" \in DOMAIN ind
     /\ AtLeastTwo(ind.macd, "MACD")
     /\ AtLeastTwo(ind.macd, "signal")
     /\ AtLeastTwo(ind.macd, "histogram")
  THEN LET l == ind.macd.MACD
           g == ind.macd.signal
           h == ind.macd.histogram
           crossUp == l[Len(l) - 1] <= g[Len(g) - 1] /\ l[Len(l)] > g[Len(g)]
           crossDown == l[Len(l) - 1] >= g[Len(g) - 1] /\ l[Len(l)] < g[Len(g)]
           flipUp == h[Len(h) - 1] <= 0 /\ h[Len(h)] > 0
           flipDown == h[Len(h) - 1] >= 0 /\ h[Len(h)] < 0
       IN IF crossUp THEN <<"buy", 105>>
          ELSE IF crossDown THEN <<"sell", 105>>
          ELSE IF flipUp THEN <<"buy", 45>>
          ELSE IF flipDown THEN <<"sell", 45>>
          ELSE <<"neutral", 0>>
  ELSE <<"neutral", 0>>

\* C13: the MACD rule appends exactly one contribution, the fourth: with at
\* least two points in line, signal and histogram a line/signal crossover
\* contributes +/- 0.7 * 15 and takes precedence over a histogram sign flip,
\* which contributes +/- 0.3 * 15 only when no crossover fired; otherwise,
\* and with fewer than two points in any series, the contribution is
\* neutral with weight 0.  The score moves by the contributions.
C13_MacdCascade ==
  analysis # << >> =>
    LET a == analysis[1]
        expected == C13_Cascade(input[1].indicators)
    IN /\ Len(a.signals) = 5
       /\ {i \in 1..Len(a.signals) : a.signals[i].name = "MACD"} = {4}
       /\ a.signals[4].signal = expected[1]
       /\ a.signals[4].weight = expected[2]
       /\ a.score = SumApplied(a.signals)

\* C13 witness: a bullish crossover together with a bearish histogram flip;
\* the crossover wins.
C13_Witness ==
  /\ analysis # << >>
  /\ "macd" \in DOMAIN input[1].indicators
  /\ "MACD" \in DOMAIN input[1].indicators.macd
  /\ input[1].indicators.macd.MACD = <<-1, 1>>
  /\ input[1].indicators.macd.signal = <<0, 0>>
  /\ input[1].indicators.macd.histogram = <<1, -1>>
  /\ analysis[1].signals[4].signal = "buy"
  /\ analysis[1].signals[4].weight = 105

\* C14: the Volume rule contributes +15 exactly when currentVolume /
\* volumeSma20.current > 1.5 and currentPrice > previousPrice, -15 exactly
\* when the ratio > 1.5 and currentPrice < previousPrice, and a neutral
\* entry of weight 0 in every other case.
C14_VolumeRule ==
  analysis # << >> =>
    LET a == analysis[1]
        ind == input[1].indicators
        currentPrice == input[1].currentPrice
        previousPrice == input[1].previousPrice
        average == Current(ind, "volumeSma20")
        volume == CurrentVolume(ind)
        ratioHigh == /\ average # << >> /\ volume # << >>
                     /\ 10 * volume[1] > 15 * average[1]
        priced == currentPrice # << >> /\ previousPrice # << >>
        up == ratioHigh /\ priced /\ currentPrice[1] > previousPrice[1]
        down == ratioHigh /\ priced /\ currentPrice[1] < previousPrice[1]
        c == a.signals[5]
    IN /\ Len(a.signals) = 5
       /\ c.name = "Volume"
       /\ (c.signal = "buy" /\ Applied(c) = 150) <=> up
       /\ (c.signal = "sell" /\ Applied(c) = -150) <=> down
       /\ Neutral(c) <=> ~up /\ ~down
       /\ a.score = SumApplied(SubSeq(a.signals, 1, 4)) + Applied(c)

\* C14 witness: volume twice its average on a rising price.
C14_Witness ==
  /\ analysis # << >>
  /\ Current(input[1].indicators, "volumeSma20") = <<2>>
  /\ CurrentVolume(input[1].indicators) = <<4>>
  /\ input[1].currentPrice = <<3>>
  /\ input[1].previousPrice = <<2>>
  /\ analysis[1].signals[5].signal = "buy"
  /\ analysis[1].signals[5].weight = 150

(***************************************************************************)
(* Claims about the indicator pipeline (checked under SpecPipeline).       *)
(***************************************************************************)
SeriesLength == Len(pipeInput[1].klines)

\* C15: for a candle series of length < 20 passed through
\* calculateIndicators and then performAnalysis, sma20.current is absent,
\* the MA-crossover contribution is neutral with weight 0, and the run
\* returns its five contributions.
C15_ShortSeriesCrossoverNeutral ==
  /\ (bundle # << >> /\ SeriesLength < 20) =>
        /\ bundle[1].sma20.values = << >>
        /\ bundle[1].sma20.current = << >>
  /\ (analysis # << >> /\ SeriesLength < 20) =>
        /\ Len(analysis[1].signals) = 5
        /\ analysis[1].signals[3].name = "MACrossover"
        /\ Neutral(analysis[1].signals[3])

\* C15 witness: 19 candles for which the library would answer sma with two
\* values; the RSI rule fires, the crossover rule is neutral.
C15_Witness ==
  /\ analysis # << >>
  /\ SeriesLength = 19
  /\ pipeInput[1].library.sma20 = LibArray(<<1, 3>>)
  /\ pipeInput[1].library.sma50 = LibArray(<<2, 2>>)
  /\ analysis[1].signals[2].signal = "buy"
  /\ Neutral(analysis[1].signals[3])

SeriesIndicators == {"sma20", "sma50", "sma200", "rsi", "volumeSma20"}
GroupedIndicators == {"macd", "bollingerbands", "stochastic"}

\* C16: for every series length, 0 included, the bundle has every
\* indicator key and every sub-series of the grouped indicators; an
\* indicator below its minimum period appears with empty values and absent
\* current: macd with empty line, signal and histogram, bollinger with
\* empty upper, middle and lower.
C16_EveryKeyAndSubSeriesPresent ==
  bundle # << >> =>
    LET b == bundle[1]
    IN /\ SeriesIndicators \cup GroupedIndicators \subseteq DOMAIN b
       /\ \A name \in SeriesIndicators :
            /\ {"values", "current"} \subseteq DOMAIN b[name]
            /\ name \notin libCalls =>
                  b[name].values = << >> /\ b[name].current = << >>
       /\ {"MACD", "signal", "histogram"} \subseteq DOMAIN b.macd
       /\ {"upper", "middle", "lower"} \subseteq DOMAIN b.bollingerbands
       /\ {"k", "d"} \subseteq DOMAIN b.stochastic
       /\ "macd" \notin libCalls =>
            /\ b.macd.MACD = << >> /\ b.macd.signal = << >>
            /\ b.macd.histogram = << >> /\ b.macd.currentMACD = << >>
       /\ "bollingerbands" \notin libCalls =>
            /\ b.bollingerbands.upper = << >> /\ b.bollingerbands.middle = << >>
            /\ b.bollingerbands.lower = << >>

C17_StatedMinimum ==
  [sma20 |-> 20, sma50 |-> 50, sma200 |-> 200, rsi |-> 14, macd |-> 34,
   bollingerbands |-> 20, stochastic |-> 17, volumeSma20 |-> 20]

C17_AmendedMinimum == [C17_StatedMinimum EXCEPT !.stochastic = 18]

\* An indicator left empty: no values and no current, or the object {}.
LeftEmpty(b, name) ==
  IF name \in SeriesIndicators
  THEN b[name].values = << >> /\ b[name].current = << >>
  ELSE b[name] = EmptyObject

ComputedFrom(minimum) ==
  bundle # << >> =>
    \A name \in DOMAIN minimum :
      /\ name \in libCalls <=> SeriesLength >= minimum[name]
      /\ name \notin libCalls => LeftEmpty(bundle[1], name)

\* C17 as stated: each indicator is computed exactly when the series has
\* at least its minimum period (SMA20 20, SMA50 50, SMA200 200, RSI 14,
\* MACD 34, Bollinger 20, Stochastic 17, Volume-SMA 20) and is left empty
\* below it.
C17_ComputedFromStatedMinimum == ComputedFrom(C17_StatedMinimum)

\* C17 amended: the same with Stochastic computed from 18 candles.
C17_ComputedFromAmendedMinimum == ComputedFrom(C17_AmendedMinimum)

\* C17 witness: 18 candles; the library has been called for rsi and
\* stochastic only, and the stochastic group is built.
C17_Witness ==
  /\ bundle # << >>
  /\ SeriesLength = 18
  /\ libCalls = {"rsi", "stochastic"}
  /\ bundle[1].stochastic # EmptyObject
  /\ bundle[1].macd = EmptyObject

(***************************************************************************)
(* Claims about fetches in flight at the same time (SpecConcurrent).       *)
(***************************************************************************)
\* C18: two fetches in flight at the same time never both read the same
\* timestamp, pass the throttle and issue their requests less than the
\* rate-limit interval apart, and the cache holds whole bodies only.
C18_ConcurrentFetchesThrottled ==
  /\ \A p, q \in Callers :
       (/\ p # q
        /\ calls[p].pc = "fetching" /\ calls[q].pc = "fetching"
        /\ calls[p].seen = calls[q].seen)
         => Abs(calls[p].at - calls[q].at) >= RateLimit
  /\ \A key \in DOMAIN cachedData : cachedData[key] \in Bodies

(***************************************************************************)
(* The frame of a failed fetch (checked under Spec).                       *)
(***************************************************************************)
C19_FailedFetchStep ==
  /\ (run.pc = "fetching" /\ run'.pc = "idle" /\ run'.outcome = "threw") =>
        /\ cachedData' = cachedData
        /\ lastRequestTime' = lastRequestTime
        /\ ~CacheHit(cachedData', run.key)
  /\ (/\ run.pc = "idle" /\ run.outcome = "threw"
      /\ run' # run /\ run'.key = run.key) =>
        run'.pc \in {"waiting", "fetching"}
  /\ (bRun.pc = "fetching" /\ bRun'.pc = "idle" /\ bRun'.outcome = "threw") =>
        /\ cachedData' = cachedData
        /\ lastRequestTime' = lastRequestTime
  /\ (bRun.pc = "idle" /\ bRun.outcome = "threw" /\ bRun' # bRun) =>
        bRun'.pc = "fetching" /\ bRun'.attempts = << endpoints[1] >>

\* C19: a fetchKlines call that fails (non-OK status, transport error or
\* undecodable body) leaves the cache and the last-request timestamp
\* unchanged, so the next fetch for the same key is not served from the
\* cache: it goes to the network again.
C19_FailedFetchLeavesCacheAndTimestamp == [][C19_FailedFetchStep]_vars

\* C19 witness: a request failed, the cache and the timestamp are as they
\* were, and a second request for the same key has been issued.
C19_Witness ==
  /\ Len(netLog) >= 2
  /\ netLog[1].status = "failed"
  /\ netLog[2].key = netLog[1].key
  /\ cachedData = << >>
  /\ lastRequestTime = 0

====
